---- MODULE Spec2Model ----
(***************************************************************************)
(* Model of build.rs of drm-fourcc-rs: generate() runs the C preprocessor, *)
(* parses its macro dump, writes wrapper.h, has bindgen emit src/consts.rs *)
(* and writes src/as_enum.rs (the DrmFormat enum and its from_u32).        *)
(* Text is modelled as sequences of one-character strings.                 *)
(***************************************************************************)
EXTENDS Integers, Sequences, FiniteSets

VARIABLES pc, child, exitStatus, rawValid, rawText, stdout, idx, names,
          wrapper, consts, as_enum, members, error, payload

vars == <<pc, child, exitStatus, rawValid, rawText, stdout, idx, names,
          wrapper, consts, as_enum, members, error, payload>>

\* ------------------------------------------------------------------ bounds
\* Lines of preprocessor output in a run of generate().
MaxLines == 3
\* Lines of preprocessor output handed to the parser on its own.
MaxParseLines == 2
\* Length of the generated short names.
MaxShort == 2

\* ------------------------------------------------------- program literals
DEFINE_KW == <<"#","d","e","f","i","n","e"," ">>
FORMAT_PREFIX == <<"D","R","M","_","F","O","R","M","A","T","_">>
RESERVED_MARKER == <<"D","R","M","_","F","O","R","M","A","T","_","R","E","S","E","R","V","E","D">>
INVALID_MARKER == <<"I","N","V","A","L","I","D">>
const_prefix == <<"D","R","M","_","F","O","U","R","C","C","_">>
CONSTS_PATH == <<"c","o","n","s","t","s",":",":">>

UpperCase == <<"A","B","C","D","E","F","G","H","I","J","K","L","M","N","O","P","Q","R","S","T","U","V","W","X","Y","Z">>
LowerCase == <<"a","b","c","d","e","f","g","h","i","j","k","l","m","n","o","p","q","r","s","t","u","v","w","x","y","z">>
Digits == {"0","1","2","3","4","5","6","7","8","9"}
\* The regex class \s restricted to ASCII.
WhiteSpace == {" ", "\t", "\n", "\r", "\f"}
\* The regex class [A-Z0-9].
ShortClass == {UpperCase[k] : k \in 1..Len(UpperCase)} \cup Digits

\* ---------------------------------------------------------- text helpers
Min(S) == CHOOSE x \in S : \A y \in S : x <= y

\* s has p at position i.
StartsWithAt(s, p, i) ==
  /\ i >= 1
  /\ i + Len(p) - 1 <= Len(s)
  /\ \A k \in 1..Len(p) : s[i + k - 1] = p[k]

\* str::contains
Contains(s, p) == \E i \in 1..(Len(s) + 1) : StartsWithAt(s, p, i)

\* The number of characters of s from position i on that are in class,
\* up to the first that is not (a greedy repetition).
RunLen(s, i, class) ==
  LET stops == {k \in i..Len(s) : s[k] \notin class}
  IN  IF stops = {} THEN (IF i > Len(s) THEN 0 ELSE Len(s) - i + 1) ELSE Min(stops) - i

\* str::lines: split at "\n", the "\n" and a "\r" before it removed; a last
\* line without "\n" is kept as it is, and no empty last line is produced.
StripCR(l) ==
  IF Len(l) >= 1 /\ l[Len(l)] = "\r" THEN SubSeq(l, 1, Len(l) - 1) ELSE l

RECURSIVE Lines(_)
Lines(t) ==
  IF t = <<>> THEN <<>>
  ELSE LET nls == {k \in 1..Len(t) : t[k] = "\n"}
       IN  IF nls = {} THEN <<t>>
           ELSE <<StripCR(SubSeq(t, 1, Min(nls) - 1))>> \o Lines(SubSeq(t, Min(nls) + 1, Len(t)))

\* ------------------------------------------------------------ the parser
\* Regex ^\s*#define (?P<full>DRM_FORMAT_(?P<short>[A-Z0-9]+)) followed by a
\* space, matched at the start of the line: <<>> for no match, else the one
\* pair (full, short).  "#" is not in \s and " " is not in [A-Z0-9], so only
\* the longest run of each repetition can match.
\* Captures with a fault: the pattern without its final space.
Captures_NoTrailingSpace(line) ==
  LET i == RunLen(line, 1, WhiteSpace) + 1
      j == i + Len(DEFINE_KW) + Len(FORMAT_PREFIX)
      n == RunLen(line, j, ShortClass)
  IN  IF /\ StartsWithAt(line, DEFINE_KW, i)
         /\ StartsWithAt(line, FORMAT_PREFIX, i + Len(DEFINE_KW))
         /\ n >= 1
      THEN <<[full |-> SubSeq(line, i + Len(DEFINE_KW), j + n - 1),
              short |-> SubSeq(line, j, j + n - 1)]>>
      ELSE <<>>

\* Captures with a fault: [A-Z0-9]* in place of [A-Z0-9]+.
Captures_StarNotPlus(line) ==
  LET i == RunLen(line, 1, WhiteSpace) + 1
      j == i + Len(DEFINE_KW) + Len(FORMAT_PREFIX)
      n == RunLen(line, j, ShortClass)
  IN  IF /\ StartsWithAt(line, DEFINE_KW, i)
         /\ StartsWithAt(line, FORMAT_PREFIX, i + Len(DEFINE_KW))
         /\ j + n <= Len(line)
         /\ line[j + n] = " "
      THEN <<[full |-> SubSeq(line, i + Len(DEFINE_KW), j + n - 1),
              short |-> SubSeq(line, j, j + n - 1)]>>
      ELSE <<>>

Captures(line) ==
  LET i == RunLen(line, 1, WhiteSpace) + 1
      j == i + Len(DEFINE_KW) + Len(FORMAT_PREFIX)
      n == RunLen(line, j, ShortClass)
  IN  IF /\ StartsWithAt(line, DEFINE_KW, i)
         /\ StartsWithAt(line, FORMAT_PREFIX, i + Len(DEFINE_KW))
         /\ n >= 1
         /\ j + n <= Len(line)
         /\ line[j + n] = " "
      THEN <<[full |-> SubSeq(line, i + Len(DEFINE_KW), j + n - 1),
              short |-> SubSeq(line, j, j + n - 1)]>>
      ELSE <<>>

\* HasMarker with a fault: the INVALID test left out.
HasMarker_ReservedOnly(line) == Contains(line, RESERVED_MARKER)

\* The marker test of the filter_map closure.
HasMarker(line) == Contains(line, RESERVED_MARKER) \/ Contains(line, INVALID_MARKER)

\* The filter_map closure: what one line adds to names.
FilterMapLine(line) == IF HasMarker(line) THEN <<>> ELSE Captures(line)

\* ------------------------------------------------------ enum_member_case
ToAsciiLowercaseChar(c) ==
  IF \E k \in 1..Len(UpperCase) : UpperCase[k] = c
  THEN LowerCase[CHOOSE k \in 1..Len(UpperCase) : UpperCase[k] = c]
  ELSE c

ToAsciiLowercase(s) == [k \in 1..Len(s) |-> ToAsciiLowercaseChar(s[k])]

\* split_at(1) panics on the empty string.
Panicked == <<"!panic">>

\* enum_member_case with a fault: the first character lower-cased too.
EnumMemberCase_LowerAll(s) ==
  IF Len(s) < 1 THEN Panicked ELSE ToAsciiLowercase(s)

EnumMemberCase(s) ==
  IF Len(s) < 1 THEN Panicked
  ELSE <<s[1]>> \o ToAsciiLowercase(SubSeq(s, 2, Len(s)))

\* Members with a fault: the path built from the full name.
Members_UsesFull(ns) ==
  [k \in 1..Len(ns) |->
     [member |-> EnumMemberCase(ns[k].short),
      value |-> CONSTS_PATH \o const_prefix \o ns[k].full]]

\* The members vector: (variant name, path of the constant) per entry.
Members(ns) ==
  [k \in 1..Len(ns) |->
     [member |-> EnumMemberCase(ns[k].short),
      value |-> CONSTS_PATH \o const_prefix \o ns[k].short]]

\* ------------------------------------------------- the emitted from_u32
\* Values a format macro may have in the header, and codes looked up.
\* 875713089 is fourcc_code('A', 'R', '2', '4'), DRM_FORMAT_ARGB8888.
Values == {0, 1, 875713089}
Codes == Values \cup {2}

\* The value of the constant a path consts::<name> names in consts.rs; a
\* path naming no constant does not compile (NoValue, which is no u32).
NoValue == 0 - 1
ConstValue(table, path) ==
  LET hits == {k \in 1..Len(table) : CONSTS_PATH \o table[k].name = path}
  IN  IF hits = {} THEN NoValue ELSE table[Min(hits)].value

\* FromU32 with a fault: an arm 0 => None ahead of the others.
FromU32_ZeroIsNone(arms, table, n) ==
  LET hits == {k \in 1..Len(arms) : ConstValue(table, arms[k].pattern) = n}
  IN  IF hits = {} \/ n = 0 THEN <<>> ELSE <<arms[Min(hits)].result>>

\* The emitted match: the first arm whose constant equals n decides, and the
\* arm _ => None takes the rest.  <<>> is None, <<m>> is Some(Self::m).
FromU32(arms, table, n) ==
  LET hits == {k \in 1..Len(arms) : ConstValue(table, arms[k].pattern) = n}
  IN  IF hits = {} THEN <<>> ELSE <<arms[Min(hits)].result>>

\* The discriminant of the variant called m of the emitted enum.
Discriminant(variants, table, m) ==
  LET hits == {k \in 1..Len(variants) : variants[k].member = m}
  IN  IF hits = {} THEN NoValue ELSE ConstValue(table, variants[Min(hits)].value)

\* ----------------------------------------------------- what is written
\* "uint32_t {const_prefix}{short} = {full};"
BindingOf(e) == [name |-> const_prefix \o e.short, value |-> e.full]

\* "{member} = {value},"
VariantOf(m) == [member |-> m.member, value |-> m.value]

\* "{value} => Some(Self::{member}),"
ArmOf(m) == [pattern |-> m.value, result |-> m.member]

\* whitelist_var("DRM_FOURCC_.*")
Whitelisted(b) == StartsWithAt(b.name, const_prefix, 1)

\* C allows one definition of a variable: a wrapper.h naming one twice is
\* rejected by bindgen's clang.
DistinctNames(bs) == \A a, b \in 1..Len(bs) : bs[a].name = bs[b].name => a = b

\* success() with a fault: the status not looked at.
StatusSuccess_Always(st) == TRUE

\* result.status.success()
StatusSuccess(st) == st = "success"

NoWrapper == [created |-> FALSE, includes |-> 0, bindings |-> <<>>, flushed |-> FALSE]
NoConsts == [created |-> FALSE, table |-> <<>>, complete |-> FALSE]
NoEnum == [created |-> FALSE, variants |-> <<>>, arms |-> <<>>, complete |-> FALSE]

\* ----------------------------------------------------------- the inputs
TAIL_ONE == <<" ", "1">>
DefineLine(name, tail) == DEFINE_KW \o name \o tail
L_A == DefineLine(FORMAT_PREFIX \o <<"A">>, TAIL_ONE)
L_A1 == DefineLine(FORMAT_PREFIX \o <<"A", "1">>, TAIL_ONE)
\* The spec's example short name.
L_EXAMPLE == DefineLine(FORMAT_PREFIX \o <<"A","B","C","1","2","3">>, TAIL_ONE)
\* Leading whitespace.
L_INDENTED == <<" ", "\t">> \o L_A
\* A function-like macro.
L_FUNCTION == DefineLine(FORMAT_PREFIX \o <<"A">>, <<"(","x",")"," ","1">>)
\* The name goes on with "_", as DRM_FORMAT_MOD_LINEAR does.
L_UNDERSCORE == DefineLine(FORMAT_PREFIX \o <<"A","_","B">>, TAIL_ONE)
\* Nothing after the prefix.
L_NOSHORT == DefineLine(FORMAT_PREFIX, TAIL_ONE)
\* A lower-case letter in the name.
L_LOWER == DefineLine(FORMAT_PREFIX \o <<"A","b">>, TAIL_ONE)
\* #define DRM_FORMAT_INVALID 0 and DRM_FORMAT_RESERVED, as in drm_fourcc.h.
L_INVALID == DefineLine(FORMAT_PREFIX \o INVALID_MARKER, <<" ", "0">>)
L_RESERVED == DefineLine(RESERVED_MARKER, TAIL_ONE)
\* A marker in the macro's body only.
L_BODY_MARKER == DefineLine(FORMAT_PREFIX \o <<"1">>, <<" ">> \o INVALID_MARKER)
\* Another namespace, and the prefix not at the start of the name.
L_OTHER == DefineLine(<<"O","T","H","E","R","_","A">>, <<" ", "5">>)
L_INFIX == DefineLine(<<"X">> \o FORMAT_PREFIX \o <<"A">>, TAIL_ONE)
\* A tab, not a space, after the name.
L_TAB == DefineLine(FORMAT_PREFIX \o <<"A">>, <<"\t", "1">>)
\* A line ending in CR LF, and an empty line.
L_CRLF == DefineLine(FORMAT_PREFIX \o <<"1","A">>, TAIL_ONE \o <<"\r">>)
L_EMPTY == <<>>

ShortChars == {"A", "1"}
Strs(n) == UNION {[1..k -> ShortChars] : k \in 1..n}

\* The lines the parser is tried on.
RichLines ==
  {DefineLine(FORMAT_PREFIX \o s, TAIL_ONE) : s \in Strs(MaxShort)}
    \cup {L_EXAMPLE, L_INDENTED, L_FUNCTION, L_UNDERSCORE, L_NOSHORT, L_LOWER,
          L_INVALID, L_RESERVED, L_BODY_MARKER, L_OTHER, L_INFIX, L_TAB, L_CRLF,
          L_EMPTY}

\* The lines of a whole run.
PipeLines == {L_A, L_A1, L_INVALID, L_BODY_MARKER, L_FUNCTION, L_OTHER}

Outputs(L, n) == UNION {[1..k -> L] : k \in 0..n}

\* The preprocessor ends every line with "\n".
RECURSIVE JoinLines(_)
JoinLines(ls) ==
  IF ls = <<>> THEN <<>> ELSE Head(ls) \o <<"\n">> \o JoinLines(Tail(ls))

\* ------------------------------------------------------------ generate()
Init ==
  /\ pc = "start"
  /\ child = "none"
  /\ exitStatus = "none"
  /\ rawValid = FALSE
  /\ rawText = <<>>
  /\ stdout = <<>>
  /\ idx = 0
  /\ names = <<>>
  /\ wrapper = NoWrapper
  /\ consts = NoConsts
  /\ as_enum = NoEnum
  /\ members = <<>>
  /\ error = "none"
  /\ payload = <<>>

\* Fail with a fault: the error swallowed and Ok(()) returned.
Fail_ReturnsOk(kind) == pc' = "done" /\ error' = "none"

\* A step that fails: the error leaves generate() through ? or a panic.
Fail(kind) == pc' = "failed" /\ error' = kind

\* Command::new("clang") ... .spawn()?
Spawn ==
  /\ pc = "start"
  /\ \/ /\ child' = "running"
        /\ pc' = "write_stdin"
        /\ UNCHANGED error
     \/ /\ Fail("LaunchError")
        /\ UNCHANGED child
  /\ UNCHANGED <<exitStatus, rawValid, rawText, stdout, idx, names, wrapper,
                 consts, as_enum, members, payload>>

\* stdin.write_all(b"#include <drm/drm_fourcc.h>\n")?  On an error the Child
\* is dropped, and dropping a Child neither kills nor waits for it.
WriteStdin ==
  /\ pc = "write_stdin"
  /\ \/ /\ pc' = "wait"
        /\ UNCHANGED error
     \/ Fail("IOError")
  /\ UNCHANGED <<child, exitStatus, rawValid, rawText, stdout, idx, names,
                 wrapper, consts, as_enum, members, payload>>

\* cmd.wait_with_output()?: closes stdin, reads stdout to its end, waits.
\* What the child prints and how it exits is the preprocessor's choice.
WaitWithOutput ==
  /\ pc = "wait"
  /\ \/ /\ \E st \in {"success", "failure"} :
             /\ exitStatus' = st
             /\ \/ \E out \in Outputs(PipeLines, MaxLines) :
                     /\ rawValid' = TRUE
                     /\ rawText' = JoinLines(out)
                \/ /\ rawValid' = FALSE
                   /\ rawText' = <<>>
        /\ child' = "reaped"
        /\ pc' = "decode"
        /\ UNCHANGED error
     \/ /\ Fail("IOError")
        /\ UNCHANGED <<child, exitStatus, rawValid, rawText>>
  /\ UNCHANGED <<stdout, idx, names, wrapper, consts, as_enum, members, payload>>

\* String::from_utf8(result.stdout)?
DecodeUtf8 ==
  /\ pc = "decode"
  /\ IF rawValid
     THEN stdout' = rawText /\ pc' = "check_status" /\ UNCHANGED error
     ELSE Fail("EncodingError") /\ UNCHANGED stdout
  /\ UNCHANGED <<child, exitStatus, rawValid, rawText, idx, names, wrapper,
                 consts, as_enum, members, payload>>

\* if !result.status.success() { panic!("Clang failed with output: {}", stdout) }
CheckStatus ==
  /\ pc = "check_status"
  /\ IF StatusSuccess(exitStatus)
     THEN pc' = "parse" /\ idx' = 1 /\ UNCHANGED <<error, payload>>
     ELSE Fail("PreprocessError") /\ payload' = stdout /\ UNCHANGED idx
  /\ UNCHANGED <<child, exitStatus, rawValid, rawText, stdout, names, wrapper,
                 consts, as_enum, members>>

\* stdout.lines().filter_map(..): the closure on the next line.
ParseLine ==
  /\ pc = "parse"
  /\ idx <= Len(Lines(stdout))
  /\ names' = names \o FilterMapLine(Lines(stdout)[idx])
  /\ idx' = idx + 1
  /\ UNCHANGED <<pc, child, exitStatus, rawValid, rawText, stdout, wrapper,
                 consts, as_enum, members, error, payload>>

\* .collect()
ParseDone ==
  /\ pc = "parse"
  /\ idx > Len(Lines(stdout))
  /\ pc' = "create_wrapper"
  /\ UNCHANGED <<child, exitStatus, rawValid, rawText, stdout, idx, names,
                 wrapper, consts, as_enum, members, error, payload>>

\* File::create(&wrapper_path)?
CreateWrapper ==
  /\ pc = "create_wrapper"
  /\ \/ /\ wrapper' = [NoWrapper EXCEPT !.created = TRUE]
        /\ pc' = "write_includes"
        /\ UNCHANGED error
     \/ /\ Fail("IOError")
        /\ UNCHANGED wrapper
  /\ UNCHANGED <<child, exitStatus, rawValid, rawText, stdout, idx, names,
                 consts, as_enum, members, payload>>

\* The two write_all(b"#include ...")? calls.
WriteIncludes ==
  /\ pc = "write_includes"
  /\ \/ /\ wrapper' = [wrapper EXCEPT !.includes = 2]
        /\ pc' = "write_bindings"
        /\ idx' = 1
        /\ UNCHANGED error
     \/ /\ \E k \in 0..1 : wrapper' = [wrapper EXCEPT !.includes = k]
        /\ Fail("IOError")
        /\ UNCHANGED idx
  /\ UNCHANGED <<child, exitStatus, rawValid, rawText, stdout, names, consts,
                 as_enum, members, payload>>

\* for (full, short) in &names { writeln!(wrapper, ...)? }
WriteBinding ==
  /\ pc = "write_bindings"
  /\ idx <= Len(names)
  /\ \/ /\ wrapper' = [wrapper EXCEPT !.bindings = Append(@, BindingOf(names[idx]))]
        /\ idx' = idx + 1
        /\ UNCHANGED <<pc, error>>
     \/ /\ Fail("IOError")
        /\ UNCHANGED <<wrapper, idx>>
  /\ UNCHANGED <<child, exitStatus, rawValid, rawText, stdout, names, consts,
                 as_enum, members, payload>>

\* wrapper.flush()?: File's flush does nothing and returns Ok.
FlushWrapper ==
  /\ pc = "write_bindings"
  /\ idx > Len(names)
  /\ wrapper' = [wrapper EXCEPT !.flushed = TRUE]
  /\ pc' = "bindgen"
  /\ UNCHANGED <<child, exitStatus, rawValid, rawText, stdout, idx, names,
                 consts, as_enum, members, error, payload>>

\* The constants bindgen emits for the variables of wrapper.h, each with the
\* value v gives its macro.
ConstTable(bs, v) ==
  LET kept == SelectSeq(bs, Whitelisted)
  IN  [k \in 1..Len(kept) |-> [name |-> kept[k].name, value |-> v[kept[k].value]]]

\* bindgen::builder()...generate().unwrap().write_to_file("src/consts.rs")?
\* The header gives each macro its value.
Bindgen ==
  /\ pc = "bindgen"
  /\ \/ /\ Fail("BindgenError")
        /\ UNCHANGED consts
     \/ /\ DistinctNames(wrapper.bindings)
        /\ \/ /\ \E v \in [{b.value : b \in {wrapper.bindings[k] : k \in 1..Len(wrapper.bindings)}} -> Values] :
                   consts' = [created |-> TRUE,
                              table |-> ConstTable(wrapper.bindings, v),
                              complete |-> TRUE]
              /\ pc' = "create_enum"
              /\ UNCHANGED error
           \/ /\ \E c \in BOOLEAN : consts' = [NoConsts EXCEPT !.created = c]
              /\ Fail("IOError")
  /\ UNCHANGED <<child, exitStatus, rawValid, rawText, stdout, idx, names,
                 wrapper, as_enum, members, payload>>

\* File::create(as_enum_path)?
CreateEnum ==
  /\ pc = "create_enum"
  /\ \/ /\ as_enum' = [NoEnum EXCEPT !.created = TRUE]
        /\ pc' = "write_preamble"
        /\ UNCHANGED error
     \/ /\ Fail("IOError")
        /\ UNCHANGED as_enum
  /\ UNCHANGED <<child, exitStatus, rawValid, rawText, stdout, idx, names,
                 wrapper, consts, members, payload>>

\* The write_all calls up to "pub enum DrmFormat {", then let members = ...
WritePreamble ==
  /\ pc = "write_preamble"
  /\ \/ /\ members' = Members(names)
        /\ pc' = "write_variants"
        /\ idx' = 1
        /\ UNCHANGED error
     \/ /\ Fail("IOError")
        /\ UNCHANGED <<members, idx>>
  /\ UNCHANGED <<child, exitStatus, rawValid, rawText, stdout, names, wrapper,
                 consts, as_enum, payload>>

\* for (member, value) in &members { writeln!(as_enum, "{} = {},", ..)? }
WriteVariant ==
  /\ pc = "write_variants"
  /\ idx <= Len(members)
  /\ \/ /\ as_enum' = [as_enum EXCEPT !.variants = Append(@, VariantOf(members[idx]))]
        /\ idx' = idx + 1
        /\ UNCHANGED <<pc, error>>
     \/ /\ Fail("IOError")
        /\ UNCHANGED <<as_enum, idx>>
  /\ UNCHANGED <<child, exitStatus, rawValid, rawText, stdout, names, wrapper,
                 consts, members, payload>>

\* The write_all calls from "}\n" to "match n {\n".
WriteImplHeader ==
  /\ pc = "write_variants"
  /\ idx > Len(members)
  /\ \/ /\ pc' = "write_arms"
        /\ idx' = 1
        /\ UNCHANGED error
     \/ /\ Fail("IOError")
        /\ UNCHANGED idx
  /\ UNCHANGED <<child, exitStatus, rawValid, rawText, stdout, names, wrapper,
                 consts, as_enum, members, payload>>

\* for (member, value) in &members { writeln!(as_enum, "{} => Some(Self::{}),", ..)? }
WriteArm ==
  /\ pc = "write_arms"
  /\ idx <= Len(members)
  /\ \/ /\ as_enum' = [as_enum EXCEPT !.arms = Append(@, ArmOf(members[idx]))]
        /\ idx' = idx + 1
        /\ UNCHANGED <<pc, error>>
     \/ /\ Fail("IOError")
        /\ UNCHANGED <<as_enum, idx>>
  /\ UNCHANGED <<child, exitStatus, rawValid, rawText, stdout, names, wrapper,
                 consts, members, payload>>

\* writeln!(as_enum, "_ => None")?; as_enum.write_all(b"}}}")?; the file is
\* closed at the end of the block.
WriteTail ==
  /\ pc = "write_arms"
  /\ idx > Len(members)
  /\ \/ /\ as_enum' = [as_enum EXCEPT !.complete = TRUE]
        /\ pc' = "rustfmt"
        /\ UNCHANGED error
     \/ /\ Fail("IOError")
        /\ UNCHANGED as_enum
  /\ UNCHANGED <<child, exitStatus, rawValid, rawText, stdout, idx, names,
                 wrapper, consts, members, payload>>

\* Command::new("rustfmt").arg(as_enum_path).spawn()?.wait()?; Ok(())
\* rustfmt's exit status is not looked at.
Rustfmt ==
  /\ pc = "rustfmt"
  /\ \/ /\ pc' = "done"
        /\ UNCHANGED error
     \/ Fail("IOError")
  /\ UNCHANGED <<child, exitStatus, rawValid, rawText, stdout, idx, names,
                 wrapper, consts, as_enum, members, payload>>

Next ==
  \/ Spawn
  \/ WriteStdin
  \/ WaitWithOutput
  \/ DecodeUtf8
  \/ CheckStatus
  \/ ParseLine
  \/ ParseDone
  \/ CreateWrapper
  \/ WriteIncludes
  \/ WriteBinding
  \/ FlushWrapper
  \/ Bindgen
  \/ CreateEnum
  \/ WritePreamble
  \/ WriteVariant
  \/ WriteImplHeader
  \/ WriteArm
  \/ WriteTail
  \/ Rustfmt

Spec == Init /\ [][Next]_vars

\* ------------------------------------- the parser and the name map alone
\* The state generate() is in when it starts to parse, for any text.
InitParse ==
  /\ pc = "parse"
  /\ child = "reaped"
  /\ exitStatus = "success"
  /\ rawValid = TRUE
  /\ rawText \in {JoinLines(out) : out \in Outputs(RichLines, MaxParseLines)}
  /\ stdout = rawText
  /\ idx = 1
  /\ names = <<>>
  /\ wrapper = NoWrapper
  /\ consts = NoConsts
  /\ as_enum = NoEnum
  /\ members = <<>>
  /\ error = "none"
  /\ payload = <<>>

\* let members = names.iter().map(..).collect(), on the parsed names.
MapMembers ==
  /\ pc = "create_wrapper"
  /\ members' = Members(names)
  /\ pc' = "mapped"
  /\ UNCHANGED <<child, exitStatus, rawValid, rawText, stdout, idx, names,
                 wrapper, consts, as_enum, error, payload>>

NextParse ==
  \/ ParseLine
  \/ ParseDone
  \/ MapMembers

ParseSpec == InitParse /\ [][NextParse]_vars

\* ============================================================ the claims
\* Shorthands for what the claims speak of.
Terminated == pc \in {"done", "failed"}
NoArtifacts == ~wrapper.created /\ ~consts.created /\ ~as_enum.created
\* A line mentions a marker: one of the two marker texts is a piece of it.
MentionsMarker(line) ==
  \E a \in 1..Len(line) : \E b \in a..Len(line) :
    SubSeq(line, a, b) \in {RESERVED_MARKER, INVALID_MARKER}
\* The discriminants of the emitted enum's variants.
EmittedDiscriminants ==
  {ConstValue(consts.table, as_enum.variants[k].value) : k \in 1..Len(as_enum.variants)}
\* from_u32 of the emitted file.
Lookup(v) == FromU32(as_enum.arms, consts.table, v)

\* C1: once as_enum.rs is written, from_u32(v) is Some(variant) exactly when v
\* is the discriminant of an emitted variant, that variant's discriminant is
\* v, and every other code (0 too, when no format has it) gives None.
C1_ReverseLookup ==
  as_enum.complete =>
    \A v \in Codes :
      /\ (Lookup(v) # <<>>) <=> (v \in EmittedDiscriminants)
      /\ Lookup(v) # <<>> =>
           Discriminant(as_enum.variants, consts.table, Lookup(v)[1]) = v

C1_Witness ==
  /\ pc = "done"
  /\ Len(as_enum.variants) = 2
  /\ 0 \notin EmittedDiscriminants
  /\ Lookup(0) = <<>>
  /\ Lookup(1) # <<>>
  /\ Lookup(2) = <<>>

\* C2: the bindings of wrapper.h and the variants of as_enum.rs go together
\* one to one and in order: the i-th variant's discriminant is the path of
\* the i-th binding, no variant is without its binding, and once the enum is
\* written no binding is without its variant.
C2_TablesAgree ==
  /\ \A k \in 1..Len(as_enum.variants) :
       /\ k <= Len(wrapper.bindings)
       /\ as_enum.variants[k].value = CONSTS_PATH \o wrapper.bindings[k].name
  /\ as_enum.complete => Len(as_enum.variants) = Len(wrapper.bindings)

C2_Witness ==
  /\ pc = "done"
  /\ Len(wrapper.bindings) = 2
  /\ Len(as_enum.variants) = 2
  /\ wrapper.bindings[1].name # wrapper.bindings[2].name

\* Every binding, variant and lookup arm written comes from an entry of names.
ArtifactsFromNames ==
  /\ \A k \in 1..Len(wrapper.bindings) :
       \E e \in 1..Len(names) : wrapper.bindings[k] = BindingOf(names[e])
  /\ \A k \in 1..Len(as_enum.variants) :
       \E e \in 1..Len(names) :
         as_enum.variants[k].value = CONSTS_PATH \o const_prefix \o names[e].short
  /\ \A k \in 1..Len(as_enum.arms) :
       \E e \in 1..Len(names) :
         as_enum.arms[k].pattern = CONSTS_PATH \o const_prefix \o names[e].short

DeclaredEntries(line, ends) ==
  LET starts == {a \in (Len(DEFINE_KW) + Len(FORMAT_PREFIX) + 1)..Len(line) :
                   /\ SubSeq(line, a - Len(FORMAT_PREFIX), a - 1) = FORMAT_PREFIX
                   /\ SubSeq(line, a - Len(FORMAT_PREFIX) - Len(DEFINE_KW),
                             a - Len(FORMAT_PREFIX) - 1) = DEFINE_KW
                   /\ \A k \in 1..(a - Len(FORMAT_PREFIX) - Len(DEFINE_KW) - 1) :
                        line[k] \in WhiteSpace}
      stops(a) == {b \in a..(Len(line) - 1) :
                     /\ \A k \in a..b : line[k] \in ShortClass
                     /\ line[b + 1] \in ends}
  IN  UNION {{[full |-> FORMAT_PREFIX \o SubSeq(line, a, b), short |-> SubSeq(line, a, b)] :
                b \in stops(a)} : a \in starts}

\* The entries of the lines that mention no marker, in the lines' order.
RECURSIVE DeclaredNames(_, _)
DeclaredNames(ls, ends) ==
  IF ls = <<>> THEN <<>>
  ELSE (IF MentionsMarker(Head(ls)) \/ DeclaredEntries(Head(ls), ends) = {}
        THEN <<>>
        ELSE <<CHOOSE e \in DeclaredEntries(Head(ls), ends) : TRUE>>)
       \o DeclaredNames(Tail(ls), ends)

ParsedAre(ends) ==
  /\ pc = "parse" => names = DeclaredNames(SubSeq(Lines(stdout), 1, idx - 1), ends)
  /\ pc \in {"create_wrapper", "mapped"} => names = DeclaredNames(Lines(stdout), ends)
  /\ \A k \in 1..Len(Lines(stdout)) :
       Cardinality(DeclaredEntries(Lines(stdout)[k], ends)) <= 1

\* C4 as stated: the parsed names are, in the order of the lines, one entry
\* (full name, short name) for each line that mentions no marker and defines
\* a name DRM_FORMAT_<run of A-Z, 0-9> followed by whitespace.
C4_Original == ParsedAre(WhiteSpace)

\* C4 as amended: the same, with the name followed by a space character.
C4_ParsedNames == ParsedAre({" "})

C4_Witness ==
  /\ pc = "mapped"
  /\ Lines(stdout) = <<L_EXAMPLE, L_INDENTED>>
  /\ Len(names) = 2
  /\ names[1].short = <<"A","B","C","1","2","3">>
  /\ names[2].full = FORMAT_PREFIX \o <<"A">>

\* C5 as stated: when the preprocessor's exit status is a failure, generate()
\* ends with PreprocessError carrying the output, with no other error, and
\* has created none of wrapper.h, src/consts.rs and src/as_enum.rs.
C5_Original ==
  exitStatus = "failure" =>
    /\ pc \in {"decode", "check_status", "failed"}
    /\ NoArtifacts
    /\ pc = "failed" => (error = "PreprocessError" /\ payload = rawText)

\* C5 as amended: the same, but output that is not UTF-8 ends generate()
\* with EncodingError, the status not yet looked at.
C5_FailureAborts ==
  exitStatus = "failure" =>
    /\ pc \in {"decode", "check_status", "failed"}
    /\ NoArtifacts
    /\ pc = "failed" =>
         IF rawValid THEN error = "PreprocessError" /\ payload = rawText
         ELSE error = "EncodingError"

C5_Witness ==
  /\ pc = "failed"
  /\ exitStatus = "failure"
  /\ error = "PreprocessError"
  /\ payload = JoinLines(<<L_A>>)
  /\ NoArtifacts

\* C6 as stated: a run that has ended has written both src/consts.rs and
\* src/as_enum.rs, or neither, and has left no file partly written; it has
\* ended with Ok only with both written, and otherwise with an error.
C6_Original ==
  Terminated =>
    /\ pc = "done" => (consts.complete /\ as_enum.complete /\ error = "none")
    /\ pc = "failed" => error # "none"
    /\ consts.complete <=> as_enum.complete
    /\ consts.created => consts.complete
    /\ as_enum.created => as_enum.complete

\* C6 as amended: a run ends with Ok only with both files written in full,
\* and otherwise with an error; as_enum.rs is never created before
\* consts.rs is written in full, but an error may leave consts.rs written
\* with as_enum.rs missing or partly written, or consts.rs partly written.
C6_AllOrError ==
  /\ pc = "done" => (consts.complete /\ as_enum.complete /\ error = "none")
  /\ pc = "failed" => error # "none"
  /\ as_enum.created => consts.complete

C6_Witness ==
  /\ pc = "failed"
  /\ error = "IOError"
  /\ consts.complete
  /\ as_enum.created
  /\ ~as_enum.complete
  /\ Len(as_enum.variants) = 1

\* C7: once the preprocessor is spawned, generate() does not end before the
\* child has been waited for.
C7_ChildReaped == (Terminated /\ child # "none") => child = "reaped"

\* d is the lower-case form of the letter c, or the digit c itself.
LowerForm(c, d) ==
  IF c \in Digits THEN d = c
  ELSE \E k \in 1..Len(UpperCase) : UpperCase[k] = c /\ LowerCase[k] = d

\* C8: the variant name of an entry has the short name's length and first
\* character, and after it each letter's lower-case form and each digit as
\* it is (ABC123 gives Abc123, A gives A).
C8_MemberCase ==
  pc = "mapped" =>
    /\ Len(members) = Len(names)
    /\ \A k \in 1..Len(names) :
         /\ Len(members[k].member) = Len(names[k].short)
         /\ members[k].member[1] = names[k].short[1]
         /\ \A c \in 2..Len(names[k].short) :
              LowerForm(names[k].short[c], members[k].member[c])

C8_Witness ==
  /\ pc = "mapped"
  /\ Len(names) = 2
  /\ names[1].short = <<"A","B","C","1","2","3">>
  /\ members[1].member = <<"A","b","c","1","2","3">>
  /\ names[2].short = <<"A">>
  /\ members[2].member = <<"A">>

\* C9: the emitted enum's variants have pairwise distinct names and
\* discriminants, so at most one arm of from_u32 matches a code.
C9_DistinctDiscriminants ==
  pc = "done" =>
    /\ \A a, b \in 1..Len(as_enum.variants) :
         a # b =>
           /\ as_enum.variants[a].member # as_enum.variants[b].member
           /\ ConstValue(consts.table, as_enum.variants[a].value)
                # ConstValue(consts.table, as_enum.variants[b].value)
    /\ \A v \in Codes :
         Cardinality({k \in 1..Len(as_enum.arms) :
                        ConstValue(consts.table, as_enum.arms[k].pattern) = v}) <= 1

\* C10: enum_member_case does not panic on a parsed short name, and two
\* entries get the same variant name only if their short names are equal.
C10_CaseInjective ==
  pc = "mapped" =>
    /\ \A k \in 1..Len(members) : members[k].member # Panicked
    /\ \A a, b \in 1..Len(members) :
         members[a].member = members[b].member => names[a].short = names[b].short

C10_Witness ==
  /\ pc = "mapped"
  /\ Len(names) = 2
  /\ names[1].short = <<"A", "A">>
  /\ names[2].short = <<"A", "1">>
  /\ members[1].member # members[2].member

====
